---- MODULE Spec2Model ----
(***************************************************************************)
(* Model of mountainsort5's post-detection consolidation code:             *)
(*   core/pairwise_merge_step.py : pairwise_merge_step,                    *)
(*                                 find_duplicate_times                    *)
(*   schemes/sorting_scheme2.py  : get_time_chunks, TimeChunk and the      *)
(*                                 phase-2 chunk loop of sorting_scheme2   *)
(* Four state machines share the module, one per piece of code:            *)
(*   SpecChunks  - the while loop of get_time_chunks                       *)
(*   SpecDup     - the loops of find_duplicate_times                       *)
(*   SpecMerge   - pairwise_merge_step (scan, apply, sort, dedup, return)  *)
(*   SpecScheme2 - the chunk loop of sorting_scheme2                       *)
(* Python integers are unbounded, so no arithmetic is reduced modulo a     *)
(* width.  Python's 0-based index i is the 1-based index i + 1 here.       *)
(***************************************************************************)
EXTENDS Integers, Sequences, FiniteSets

VARIABLES
    \* ---- get_time_chunks
    num_samples, chunk_size, padding, chunks, start, cpc,
    \* ---- find_duplicate_times
    times, tol, ret, deleted, fi1, dpc,
    \* ---- pairwise_merge_step
    templates, detect_sign, in_events, detect_time_radius,
    merges, new_events, i1, i2, uidx, calls, mpc,
    \* ---- sorting_scheme2, phase 2
    spikes, rec_samples, rec_chunk_size, time_radius, plan, ci, times_list,
    times_concat, spc

chunkVars == <<num_samples, chunk_size, padding, chunks, start, cpc>>
dupVars == <<times, tol, ret, deleted, fi1, dpc>>
mergeVars == <<templates, detect_sign, in_events, detect_time_radius,
               merges, new_events, i1, i2, uidx, calls, mpc>>
schemeVars == <<spikes, rec_samples, rec_chunk_size, time_radius, plan, ci,
                times_list, times_concat, spc>>
vars == <<chunkVars, dupVars, mergeVars, schemeVars>>

Min(a, b) == IF a <= b THEN a ELSE b

Abs(x) == IF x < 0 THEN -x ELSE x

\* The state of a state machine that is not the one running.
ChunksIdle ==
    /\ num_samples = 0 /\ chunk_size = 1 /\ padding = 0
    /\ chunks = <<>> /\ start = 0 /\ cpc = "idle"

DupIdle ==
    /\ times = <<>> /\ tol = 0 /\ ret = <<>> /\ deleted = <<>>
    /\ fi1 = 1 /\ dpc = "idle"

MergeIdle ==
    /\ templates = <<>> /\ detect_sign = 0 /\ in_events = <<>>
    /\ detect_time_radius = 0 /\ merges = <<>> /\ new_events = <<>>
    /\ i1 = 1 /\ i2 = 0 /\ uidx = 0 /\ calls = <<>> /\ mpc = "idle"

SchemeIdle ==
    /\ spikes = {} /\ rec_samples = 0 /\ rec_chunk_size = 1 /\ time_radius = 0
    /\ plan = <<>> /\ ci = 1 /\ times_list = <<>> /\ times_concat = <<>>
    /\ spc = "idle"

(***************************************************************************)
(* get_time_chunks and TimeChunk (sorting_scheme2.py)                      *)
(***************************************************************************)
MaxSamples == 7
MaxChunkSize == 4
MaxPadding == 3

\* TimeChunk.__init__
TimeChunk(s, e, pl, pr) ==
    [start |-> s, end |-> e, padding_left |-> pl, padding_right |-> pr,
     total_size |-> e - s + pl + pr]

\* Faulty variant of ChunkEnd: the clamp to num_samples is forgotten.
ChunkEnd_NoClamp(s, n, cs) == s + cs

\* "end = start + chunk_size; if end > num_samples: end = num_samples"
ChunkEnd(s, n, cs) == IF s + cs > n THEN n ELSE s + cs

\* One iteration of the while loop: the chunk appended for the current start.
NextChunk(s, n, cs, pad) ==
    LET e == ChunkEnd(s, n, cs)
    IN  TimeChunk(s, e, Min(pad, s), Min(pad, n - e))

RECURSIVE ChunksFrom(_, _, _, _)
ChunksFrom(s, n, cs, pad) ==
    IF s < n
    THEN <<NextChunk(s, n, cs, pad)>> \o ChunksFrom(ChunkEnd(s, n, cs), n, cs, pad)
    ELSE <<>>

\* The whole function, as its caller sees it.
get_time_chunks(n, cs, pad) == ChunksFrom(0, n, cs, pad)

ChunksInit ==
    /\ num_samples \in 0..MaxSamples
    /\ chunk_size \in 1..MaxChunkSize
    /\ padding \in 0..MaxPadding
    /\ chunks = <<>>
    /\ start = 0
    /\ cpc = "loop"
    /\ DupIdle /\ MergeIdle /\ SchemeIdle

\* while start < num_samples: append a chunk, start = end
ChunkLoopStep ==
    /\ cpc = "loop"
    /\ start < num_samples
    /\ chunks' = Append(chunks, NextChunk(start, num_samples, chunk_size, padding))
    /\ start' = ChunkEnd(start, num_samples, chunk_size)
    /\ UNCHANGED <<num_samples, chunk_size, padding, cpc>>
    /\ UNCHANGED <<dupVars, mergeVars, schemeVars>>

\* the loop condition fails: return chunks
ChunkLoopReturn ==
    /\ cpc = "loop"
    /\ ~(start < num_samples)
    /\ cpc' = "done"
    /\ UNCHANGED <<num_samples, chunk_size, padding, chunks, start>>
    /\ UNCHANGED <<dupVars, mergeVars, schemeVars>>

ChunksNext == ChunkLoopStep \/ ChunkLoopReturn

SpecChunks == ChunksInit /\ [][ChunksNext]_vars

\* C1: when get_time_chunks returns, the core regions [start, end) of the
\* chunks partition [0, num_samples) exactly (first start 0, each next start
\* the previous end, every core non-empty, last end num_samples) and no
\* chunk's padding reaches outside [0, num_samples).
C1_ChunksPartition ==
    cpc = "done" =>
        /\ (num_samples = 0 <=> chunks = <<>>)
        /\ chunks # <<>> =>
              /\ chunks[1].start = 0
              /\ chunks[Len(chunks)].end = num_samples
        /\ \A k \in 1..Len(chunks) :
              /\ chunks[k].start < chunks[k].end
              /\ k > 1 => chunks[k].start = chunks[k - 1].end
              /\ chunks[k].start - chunks[k].padding_left >= 0
              /\ chunks[k].end + chunks[k].padding_right <= num_samples
              /\ chunks[k].padding_left >= 0
              /\ chunks[k].padding_right >= 0

\* A returned plan of at least three chunks whose middle chunk is padded on
\* both sides and whose last chunk is shorter than chunk_size.
C1_Witness ==
    /\ cpc = "done"
    /\ Len(chunks) >= 3
    /\ chunks[2].padding_left > 0
    /\ chunks[2].padding_right > 0
    /\ chunks[2].padding_right < padding
    /\ chunks[Len(chunks)].end - chunks[Len(chunks)].start < chunk_size

(***************************************************************************)
(* find_duplicate_times (pairwise_merge_step.py)                           *)
(***************************************************************************)
MaxLen == 4
MaxTime == 6
MaxTol == 3

IsSorted(ts) == \A k \in 1..(Len(ts) - 1) : ts[k] <= ts[k + 1]

SortedTimeSeqs ==
    {ts \in UNION {[1..n -> 0..MaxTime] : n \in 0..MaxLen} : IsSorted(ts)}

\* Faulty variant of WithinTol: the event is compared with its predecessor, not
\* with the anchor.
WithinTol_Prev(ts, tl, a, j) == ts[j] <= ts[j - 1] + tl

\* The test of the inner while loop: times[i2] <= times[i1] + tol
WithinTol(ts, tl, a, j) == ts[j] <= ts[a] + tl

\* The inner while loop from i2 = j on, for the anchor a: the state it leaves.
RECURSIVE InnerScan(_, _, _, _, _, _)
InnerScan(ts, tl, a, j, r, d) ==
    IF j <= Len(ts) /\ WithinTol(ts, tl, a, j)
    THEN InnerScan(ts, tl, a, j + 1, Append(r, j), [d EXCEPT ![j] = TRUE])
    ELSE [ret |-> r, deleted |-> d]

\* Faulty variant of OuterIter: an event already deleted still acts as an anchor.
OuterIter_NoSkip(ts, tl, a, r, d) == InnerScan(ts, tl, a, a + 1, r, d)

\* One iteration of "for i1 in range(len(times))".
OuterIter(ts, tl, a, r, d) ==
    IF ~d[a]
    THEN InnerScan(ts, tl, a, a + 1, r, d)
    ELSE [ret |-> r, deleted |-> d]

RECURSIVE OuterFrom(_, _, _, _, _)
OuterFrom(ts, tl, a, r, d) ==
    IF a <= Len(ts)
    THEN LET st == OuterIter(ts, tl, a, r, d)
         IN  OuterFrom(ts, tl, a + 1, st.ret, st.deleted)
    ELSE r

\* The whole function: the sequence of removed indices, in the order appended.
find_duplicate_times(ts, tl) ==
    OuterFrom(ts, tl, 1, <<>>, [k \in 1..Len(ts) |-> FALSE])

SeqRange(s) == {s[k] : k \in 1..Len(s)}

\* s without the elements at the indices in R, order kept.
RECURSIVE KeepFrom(_, _, _)
KeepFrom(s, R, k) ==
    IF k > Len(s) THEN <<>>
    ELSE (IF k \in R THEN <<>> ELSE <<s[k]>>) \o KeepFrom(s, R, k + 1)

\* The events a caller keeps: those whose index was not returned.
Kept(s, r) == KeepFrom(s, SeqRange(r), 1)

DupInit ==
    /\ times \in SortedTimeSeqs
    /\ tol \in 0..MaxTol
    /\ ret = <<>>
    /\ deleted = [k \in 1..Len(times) |-> FALSE]
    /\ fi1 = 1
    /\ dpc = "loop"
    /\ ChunksIdle /\ MergeIdle /\ SchemeIdle

\* for i1 in range(len(times)): one iteration, its inner while loop included
FdtOuterStep ==
    /\ dpc = "loop"
    /\ fi1 <= Len(times)
    /\ LET st == OuterIter(times, tol, fi1, ret, deleted)
       IN  /\ ret' = st.ret
           /\ deleted' = st.deleted
    /\ fi1' = fi1 + 1
    /\ UNCHANGED <<times, tol, dpc>>
    /\ UNCHANGED <<chunkVars, mergeVars, schemeVars>>

\* return ret
FdtReturn ==
    /\ dpc = "loop"
    /\ fi1 > Len(times)
    /\ dpc' = "done"
    /\ UNCHANGED <<times, tol, ret, deleted, fi1>>
    /\ UNCHANGED <<chunkVars, mergeVars, schemeVars>>

DupNext == FdtOuterStep \/ FdtReturn

SpecDup == DupInit /\ [][DupNext]_vars

\* A chain: every event within tol of the previous one, the last one beyond
\* tol of the first.
IsDriftingChain(ts, tl) ==
    /\ Len(ts) >= 3
    /\ \A k \in 2..Len(ts) : ts[k] <= ts[k - 1] + tl
    /\ ts[Len(ts)] > ts[1] + tl

Removed == SeqRange(ret)

\* C2 as stated: a drifting chain is fully collapsed into its first event,
\* every other event of the chain is returned as removed.
C2_ChainFullyCollapsed ==
    (dpc = "done" /\ IsDriftingChain(times, tol)) =>
        Removed = 2..Len(times)

\* The first index of a drifting chain whose time is beyond tol of times[1].
FirstBeyondAnchor(ts, tl) ==
    CHOOSE j \in 2..Len(ts) :
        /\ ts[j] > ts[1] + tl
        /\ \A k \in 2..(j - 1) : ts[k] <= ts[1] + tl

\* C2 amended: of a drifting chain only the events within tol of the anchor
\* itself are removed; the first event beyond tol of the anchor is kept and
\* becomes the next anchor, so the chain is not fully collapsed.
C2_ChainCollapsedUpToAnchorWindow ==
    (dpc = "done" /\ IsDriftingChain(times, tol)) =>
        LET j == FirstBeyondAnchor(times, tol)
        IN  /\ j \notin Removed
            /\ \A k \in 2..(j - 1) : k \in Removed
            /\ Removed # 2..Len(times)

\* A drifting chain of four events was scanned: its second anchor is kept
\* although it lies within tol of its (removed) predecessor.
C2_Witness ==
    /\ dpc = "done"
    /\ IsDriftingChain(times, tol)
    /\ Len(times) = 4
    /\ 2 \in Removed
    /\ 3 \notin Removed
    /\ times[3] <= times[2] + tol

\* C3: when find_duplicate_times returns on a sorted sequence, the removed
\* indices are distinct indices of the input other than the first, every
\* removed event lies within tol after an earlier kept event (so the earliest
\* event of each tolerance window is kept), kept events are more than tol
\* apart, and running the function on the kept events removes nothing.
C3_KeptAnchorsIdempotent ==
    dpc = "done" =>
        /\ Removed \subseteq 2..Len(times)
        /\ Len(ret) = Cardinality(Removed)
        /\ Len(Kept(times, ret)) = Len(times) - Len(ret)
        /\ \A j \in Removed :
              \E a \in 1..(j - 1) :
                  /\ a \notin Removed
                  /\ times[j] <= times[a] + tol
        /\ \A a, b \in (1..Len(times)) \ Removed :
              a < b => times[b] > times[a] + tol
        /\ find_duplicate_times(Kept(times, ret), tol) = <<>>

\* The function returned with something removed and two events kept.
C3_Witness ==
    /\ dpc = "done"
    /\ Len(ret) >= 2
    /\ Len(Kept(times, ret)) >= 2
    /\ tol > 0

(***************************************************************************)
(* pairwise_merge_step (pairwise_merge_step.py)                            *)
(*                                                                         *)
(* A template is a T x M array, templates[i][t][m]; an event is a record   *)
(* [id, time, label] where id is the event's position in the input (the    *)
(* code keeps times and labels in two parallel arrays; id only names the   *)
(* event so that it can be followed through the re-sort).  test_merge      *)
(* (PCA followed by isosplit6) is an external oracle: each invocation      *)
(* answers TRUE or FALSE, and calls logs the invocations in order.         *)
(***************************************************************************)
SnippetLen == 6
NumChannels == 2
MaxEvents == 2
MaxEventTime == 1
MaxRadius == 1

\* The unit_ids argument; K = templates.shape[0] = len(unit_ids).
unit_ids == <<1, 2, 3>>

K == Len(unit_ids)

\* A template with one sample of value v1 at time p1 on channel 1, one of
\* value v2 at time p2 on channel 2, and 0 everywhere else.
Shape(p1, v1, p2, v2) ==
    [t \in 1..SnippetLen |->
        [m \in 1..NumChannels |->
            IF m = 1 /\ t = p1 THEN v1
            ELSE IF m = 2 /\ t = p2 THEN v2
            ELSE 0]]

\* Templates that differ only by a shift in time (merge candidates of one
\* another when rectified with detect_sign > 0).
ShiftShapes == {Shape(1, 4, 1, 3), Shape(2, 4, 2, 3), Shape(3, 4, 3, 3)}

\* Further templates: peak on channel 2 with the two channels 5 samples
\* apart, and a negative-going channel 1.
AllShapes == ShiftShapes \cup {Shape(1, 3, 6, 4), Shape(1, -4, 1, 2)}

\* Unit 1 has the reference template, every other unit the reference
\* shifted by 0, 1 or 2 samples.
ShiftedTemplates ==
    {tm \in [1..K -> ShiftShapes] : tm[1] = Shape(1, 4, 1, 3)}

SortedEvents(evs) == \A k \in 1..(Len(evs) - 1) : evs[k].time <= evs[k + 1].time

\* Input events: times ascending (the caller passes sorted times), labels
\* among unit_ids.
AllEvents ==
    {evs \in UNION {[1..n -> [id : 1..n, time : 0..MaxEventTime,
                              label : SeqRange(unit_ids)]] : n \in 1..MaxEvents} :
        /\ \A k \in 1..Len(evs) : evs[k].id = k
        /\ SortedEvents(evs)}

\* One event per unit, all at time 0.
OneEventPerUnit == [k \in 1..K |-> [id |-> k, time |-> 0, label |-> unit_ids[k]]]

\* lines 16-21, one entry: -x, x or np.abs(x)
RectifyValue(x, sign) ==
    IF sign < 0 THEN -x
    ELSE IF sign > 0 THEN x
    ELSE Abs(x)

\* A[i][t][m] for A = -templates, templates or np.abs(templates)
A(i, t, m) == RectifyValue(templates[i][t][m], detect_sign)

SetMax(S) == CHOOSE x \in S : \A y \in S : y <= x

SetMin(S) == CHOOSE x \in S : \A y \in S : x <= y

\* np.max(A[i], axis=0)[m]
PeakValue(i, m) == SetMax({A(i, t, m) : t \in 1..SnippetLen})

\* np.argmax(A[i], axis=0)[m]: the first index of the maximum
PeakTime(i, m) ==
    LET pv == PeakValue(i, m)
    IN  SetMin({t \in 1..SnippetLen : A(i, t, m) = pv})

\* np.argmax(np.max(A[i], axis=0)): the first channel of the largest peak
PeakChannel(i) ==
    LET pvs == [m \in 1..NumChannels |-> PeakValue(i, m)]
        best == SetMax({pvs[m] : m \in 1..NumChannels})
    IN  SetMin({m \in 1..NumChannels : pvs[m] = best})

\* line 29
Offset1(a, b) == PeakTime(b, PeakChannel(a)) - PeakTime(a, PeakChannel(a))

\* line 30
Offset2(a, b) == PeakTime(b, PeakChannel(b)) - PeakTime(a, PeakChannel(b))

\* Faulty variant of AmplitudeOK: >= in place of >.
AmplitudeOK_NonStrict(a, b) ==
    /\ 2 * PeakValue(a, PeakChannel(b)) >= PeakValue(b, PeakChannel(b))
    /\ 2 * PeakValue(b, PeakChannel(a)) >= PeakValue(a, PeakChannel(a))

\* lines 32-33: x > 0.5 * y, written 2 * x > y
AmplitudeOK(a, b) ==
    /\ 2 * PeakValue(a, PeakChannel(b)) > PeakValue(b, PeakChannel(b))
    /\ 2 * PeakValue(b, PeakChannel(a)) > PeakValue(a, PeakChannel(a))

\* lines 31-33: the pair (i1, i2) = (a, b) reaches test_merge
Candidate(a, b) ==
    /\ Abs(Offset1(a, b) - Offset2(a, b)) <= 4
    /\ AmplitudeOK(a, b)

\* Faulty variant of MergeKey: the record is stored under its target.
MergeKey_Target(a, b) == unit_ids[b]

\* line 37: the key of merges the record is stored under
MergeKey(a, b) == unit_ids[a]

\* lines 37-41: the record built for the pair
MergeRecord(a, b) ==
    [unit_id1 |-> unit_ids[a], unit_id2 |-> unit_ids[b], offset |-> Offset1(a, b)]

\* Faulty variant of MergesPut: an existing record is not overwritten.
MergesPut_KeepFirst(m, key, rec) ==
    IF key \in DOMAIN m THEN m
    ELSE [x \in (DOMAIN m) \cup {key} |-> IF x = key THEN rec ELSE m[x]]

\* merges[key] = rec on a dict: inserts or overwrites
MergesPut(m, key, rec) ==
    [x \in (DOMAIN m) \cup {key} |-> IF x = key THEN rec ELSE m[x]]

MergeInit ==
    /\ templates \in [1..K -> AllShapes]
    /\ detect_sign \in {-1, 0, 1}
    /\ in_events \in AllEvents \cup {OneEventPerUnit}
    /\ \/ in_events = OneEventPerUnit
       \/ (detect_sign = 1 /\ templates \in ShiftedTemplates)
    /\ detect_time_radius \in {0, MaxRadius}
    /\ merges = <<>>
    /\ new_events = in_events
    /\ i1 = 1
    /\ i2 = 0
    /\ uidx = 1
    /\ calls = <<>>
    /\ mpc = "scan"
    /\ ChunksIdle /\ DupIdle /\ SchemeIdle

\* for i1 in range(K): the inner range for the next i1 starts at i1 - 1
ScanNextUnit ==
    /\ mpc = "scan"
    /\ i2 < 1
    /\ i1 < K
    /\ i1' = i1 + 1
    /\ i2' = i1
    /\ UNCHANGED <<templates, detect_sign, in_events, detect_time_radius,
                   merges, new_events, uidx, calls, mpc>>
    /\ UNCHANGED <<chunkVars, dupVars, schemeVars>>

\* lines 29-41 for one pair: the criteria, test_merge, the record
ScanPair ==
    /\ mpc = "scan"
    /\ i2 >= 1
    /\ IF Candidate(i1, i2)
       THEN \E passed \in BOOLEAN :
               /\ calls' = Append(calls, [i1 |-> i1, i2 |-> i2, passed |-> passed])
               /\ merges' = IF passed
                            THEN MergesPut(merges, MergeKey(i1, i2), MergeRecord(i1, i2))
                            ELSE merges
       ELSE UNCHANGED <<calls, merges>>
    /\ i2' = i2 - 1
    /\ UNCHANGED <<templates, detect_sign, in_events, detect_time_radius,
                   new_events, i1, uidx, mpc>>
    /\ UNCHANGED <<chunkVars, dupVars, schemeVars>>

\* both loops are exhausted
ScanDone ==
    /\ mpc = "scan"
    /\ i2 < 1
    /\ i1 >= K
    /\ mpc' = "apply"
    /\ uidx' = 1
    /\ UNCHANGED <<templates, detect_sign, in_events, detect_time_radius,
                   merges, new_events, i1, i2, calls>>
    /\ UNCHANGED <<chunkVars, dupVars, schemeVars>>

Reverse(s) == [k \in 1..Len(s) |-> s[Len(s) + 1 - k]]

\* Faulty variant of ApplyOrder: the units are visited in ascending order.
ApplyOrder_Ascending == unit_ids

\* line 42: unit_ids[::-1]
ApplyOrder == Reverse(unit_ids)

\* lines 49-53: new_times[inds1] += offset; new_labels[inds1] = unit_id2
ApplyRecord(evs, mm) ==
    [k \in 1..Len(evs) |->
        IF evs[k].label = mm.unit_id1
        THEN [evs[k] EXCEPT !.time = @ + mm.offset, !.label = mm.unit_id2]
        ELSE evs[k]]

\* lines 43-53 for one unit_id of unit_ids[::-1]
ApplyUnit ==
    /\ mpc = "apply"
    /\ uidx <= K
    /\ LET unit_id == ApplyOrder[uidx]
       IN  IF unit_id \in DOMAIN merges
           THEN IF merges[unit_id].unit_id1 = unit_id
                THEN /\ new_events' = ApplyRecord(new_events, merges[unit_id])
                     /\ uidx' = uidx + 1
                     /\ mpc' = mpc
                ELSE \* assert unit_id == unit_id1
                     /\ mpc' = "assert_failed"
                     /\ UNCHANGED <<new_events, uidx>>
           ELSE /\ uidx' = uidx + 1
                /\ UNCHANGED <<new_events, mpc>>
    /\ UNCHANGED <<templates, detect_sign, in_events, detect_time_radius,
                   merges, i1, i2, calls>>
    /\ UNCHANGED <<chunkVars, dupVars, schemeVars>>

ApplyDone ==
    /\ mpc = "apply"
    /\ uidx > K
    /\ mpc' = "sort"
    /\ UNCHANGED <<templates, detect_sign, in_events, detect_time_radius,
                   merges, new_events, i1, i2, uidx, calls>>
    /\ UNCHANGED <<chunkVars, dupVars, schemeVars>>

Perms(n) == {f \in [1..n -> 1..n] : \A a, b \in 1..n : a # b => f[a] # f[b]}

\* What np.argsort (default kind, not stable) may return: any ordering of the
\* events by time; the order among equal times is not specified.
ArgSorts(evs) ==
    {p \in Perms(Len(evs)) :
        \A k \in 1..(Len(evs) - 1) : evs[p[k]].time <= evs[p[k + 1]].time}

\* lines 56-58
Resort ==
    /\ mpc = "sort"
    /\ \E p \in ArgSorts(new_events) :
          new_events' = [k \in 1..Len(new_events) |-> new_events[p[k]]]
    /\ mpc' = "dedup"
    /\ UNCHANGED <<templates, detect_sign, in_events, detect_time_radius,
                   merges, i1, i2, uidx, calls>>
    /\ UNCHANGED <<chunkVars, dupVars, schemeVars>>

\* np.nonzero(labels == unit_id)[0]
RECURSIVE IndsFrom(_, _, _)
IndsFrom(evs, unit_id, k) ==
    IF k > Len(evs) THEN <<>>
    ELSE (IF evs[k].label = unit_id THEN <<k>> ELSE <<>>) \o IndsFrom(evs, unit_id, k + 1)

IndsOf(evs, unit_id) == IndsFrom(evs, unit_id, 1)

\* lines 62-68 for one unit: its duplicate events get the label 0
DedupUnit(evs, unit_id, tl) ==
    LET inds0 == IndsOf(evs, unit_id)
        times0 == [k \in 1..Len(inds0) |-> evs[inds0[k]].time]
        duplicate_inds == find_duplicate_times(times0, tl)
        marked == {inds0[duplicate_inds[k]] : k \in 1..Len(duplicate_inds)}
    IN  IF Len(inds0) > 0
        THEN [k \in 1..Len(evs) |->
                 IF k \in marked THEN [evs[k] EXCEPT !.label = 0] ELSE evs[k]]
        ELSE evs

\* lines 61-68: for unit_id in unit_ids
RECURSIVE DedupFrom(_, _, _)
DedupFrom(evs, u, tl) ==
    IF u > K THEN evs
    ELSE DedupFrom(DedupUnit(evs, unit_ids[u], tl), u + 1, tl)

\* Faulty variant of NonzeroEvents: the events labeled 0 are not dropped.
NonzeroEvents_KeepAll(evs) == evs

\* lines 71-74: the events whose label is not 0
RECURSIVE NonzeroEvents(_)
NonzeroEvents(evs) ==
    IF evs = <<>> THEN <<>>
    ELSE (IF Head(evs).label # 0 THEN <<Head(evs)>> ELSE <<>>)
             \o NonzeroEvents(Tail(evs))

\* lines 61-68
MarkDuplicates ==
    /\ mpc = "dedup"
    /\ new_events' = DedupFrom(new_events, 1, detect_time_radius)
    /\ mpc' = "filter"
    /\ UNCHANGED <<templates, detect_sign, in_events, detect_time_radius,
                   merges, i1, i2, uidx, calls>>
    /\ UNCHANGED <<chunkVars, dupVars, schemeVars>>

\* lines 71-76
RemoveAndReturn ==
    /\ mpc = "filter"
    /\ new_events' = NonzeroEvents(new_events)
    /\ mpc' = "done"
    /\ UNCHANGED <<templates, detect_sign, in_events, detect_time_radius,
                   merges, i1, i2, uidx, calls>>
    /\ UNCHANGED <<chunkVars, dupVars, schemeVars>>

MergeNext ==
    \/ ScanNextUnit \/ ScanPair \/ ScanDone
    \/ ApplyUnit \/ ApplyDone
    \/ Resort \/ MarkDuplicates \/ RemoveAndReturn

SpecMerge == MergeInit /\ [][MergeNext]_vars

(***************************************************************************)
(* Claims about pairwise_merge_step                                        *)
(***************************************************************************)
ScanOver == mpc \notin {"idle", "scan"}

\* The positions in calls of the test_merge invocations for source index a
\* that answered TRUE.
PassedFor(a) == {k \in 1..Len(calls) : calls[k].i1 = a /\ calls[k].passed}

\* C4 as stated: the record retained for a source unit is the one of the
\* first successful test_merge in the pair-scan order; a later successful
\* candidate for the same source does not overwrite it.
C4_FirstFoundWins ==
    \A a \in 1..K :
        PassedFor(a) # {} =>
            /\ unit_ids[a] \in DOMAIN merges
            /\ merges[unit_ids[a]] = MergeRecord(a, calls[SetMin(PassedFor(a))].i2)

\* C4 amended: merges holds exactly one record per source unit with a
\* successful test_merge, and it is the record of the last success in the
\* pair-scan order, that is of the lowest-indexed successful target: each
\* later success overwrites the earlier one.
C4_LastFoundWins ==
    /\ DOMAIN merges = {unit_ids[a] : a \in {b \in 1..K : PassedFor(b) # {}}}
    /\ \A a \in 1..K :
          PassedFor(a) # {} =>
              LET last == calls[SetMax(PassedFor(a))].i2
              IN  /\ merges[unit_ids[a]] = MergeRecord(a, last)
                  /\ \A k \in PassedFor(a) : last <= calls[k].i2

\* The scan ended with two successful candidates for one source unit.
C4_Witness ==
    /\ ScanOver
    /\ \E a \in 1..K : Cardinality(PassedFor(a)) >= 2

\* The label an input label ends with: merges followed to a unit without a
\* record (targets are lower-indexed, so this ends).
RECURSIVE ResolveLabel(_)
ResolveLabel(u) ==
    IF u \in DOMAIN merges THEN ResolveLabel(merges[u].unit_id2) ELSE u

\* The sum of the offsets of the records followed from u.
RECURSIVE ResolveOffset(_)
ResolveOffset(u) ==
    IF u \in DOMAIN merges
    THEN merges[u].offset + ResolveOffset(merges[u].unit_id2)
    ELSE 0

\* C6: when pairwise_merge_step returns, the output has at most as many
\* events as the input, every output event is a distinct input event, it
\* keeps its input label unless its unit was the source of a merge record,
\* in which case it carries the label that unit was remapped to, and no
\* output event has the label 0.
C6_MonotonicLabelPreserving ==
    mpc = "done" =>
        /\ Len(new_events) <= Len(in_events)
        /\ \A k \in 1..Len(new_events) :
              LET e == new_events[k]
              IN  /\ e.id \in 1..Len(in_events)
                  /\ e.label # 0
                  /\ e.label = ResolveLabel(in_events[e.id].label)
                  /\ in_events[e.id].label \notin DOMAIN merges
                        => e.label = in_events[e.id].label
        /\ \A j, k \in 1..Len(new_events) :
              j # k => new_events[j].id # new_events[k].id

\* The function returned fewer events than it was given, and a surviving
\* event was relabeled by a merge.
C6_Witness ==
    /\ mpc = "done"
    /\ Len(new_events) < Len(in_events)
    /\ \E k \in 1..Len(new_events) :
          new_events[k].label # in_events[new_events[k].id].label

\* C7: after the apply loop (before the re-sort) no event is labeled with a
\* unit that has a merge record; every event carries the label at the end of
\* its unit's merge chain and its time is the input time plus the sum of the
\* offsets along the chain (A -> B -> C: A's events get offset(A->B) +
\* offset(B->C), B's events offset(B->C)).
C7_ChainResolvedInOnePass ==
    mpc = "sort" =>
        /\ Len(new_events) = Len(in_events)
        /\ \A k \in 1..Len(new_events) :
              /\ new_events[k].id = k
              /\ new_events[k].label \notin DOMAIN merges
              /\ new_events[k].label = ResolveLabel(in_events[k].label)
              /\ new_events[k].time =
                    in_events[k].time + ResolveOffset(in_events[k].label)

\* The apply loop ended on a chain 3 -> 2 -> 1 with non-zero offsets, with an
\* event of unit 3 and an event of unit 2 in the input.
C7_Witness ==
    /\ mpc = "sort"
    /\ 3 \in DOMAIN merges
    /\ 2 \in DOMAIN merges
    /\ merges[3].unit_id2 = 2
    /\ merges[2].unit_id2 = 1
    /\ merges[3].offset # 0
    /\ merges[2].offset # 0
    /\ merges[3].offset + merges[2].offset # 0
    /\ \E j, k \in 1..Len(in_events) :
          in_events[j].label = 3 /\ in_events[k].label = 2

\* The apply loop is about to process a unit whose merge record targets a
\* unit that has a record of its own, not applied yet.
PendingTarget ==
    /\ mpc = "apply"
    /\ uidx <= K
    /\ ApplyOrder[uidx] \in DOMAIN merges
    /\ merges[ApplyOrder[uidx]].unit_id2 \in DOMAIN merges
    /\ \E j \in (uidx + 1)..K : ApplyOrder[j] = merges[ApplyOrder[uidx]].unit_id2

\* C8 as stated: a record whose target has an unresolved pending record is
\* fatal: the assertion fails and the events are left alone.
C8_PendingTargetIsFatal ==
    [][PendingTarget => (mpc' = "assert_failed" /\ new_events' = new_events)]_vars

\* C8 amended: the only assertion of the apply loop (unit_id == unit_id1)
\* never fails, and a record whose target has a pending record of its own is
\* applied like any other: the source's events are shifted by the offset and
\* relabeled to the target, every other event is left alone.
C8_PendingTargetIsApplied ==
    [][/\ mpc' # "assert_failed"
       /\ PendingTarget =>
             LET mm == merges[ApplyOrder[uidx]]
             IN  /\ Len(new_events') = Len(new_events)
                 /\ \A k \in 1..Len(new_events) :
                       IF new_events[k].label = ApplyOrder[uidx]
                       THEN /\ new_events'[k].label = mm.unit_id2
                            /\ new_events'[k].time = new_events[k].time + mm.offset
                       ELSE new_events'[k] = new_events[k]]_vars

\* Unit 3's record (target 2, non-zero offset) has just been applied to an
\* event while unit 2's own record is still to be applied.
C8_Witness ==
    /\ mpc = "apply"
    /\ uidx = 2
    /\ 3 \in DOMAIN merges
    /\ 2 \in DOMAIN merges
    /\ merges[3].unit_id2 = 2
    /\ merges[3].offset # 0
    /\ \E k \in 1..Len(in_events) :
          /\ in_events[k].label = 3
          /\ new_events[k].label = 2
          /\ new_events[k].time = in_events[k].time + merges[3].offset

IdenticalTemplates ==
    /\ mpc # "idle"
    /\ \A a, b \in 1..K : templates[a] = templates[b]

AllPairs == {<<a, b>> \in (1..K) \X (1..K) : b < a}

\* C10 as stated: with identical templates no pair satisfies the candidate
\* criteria, test_merge is never invoked and no merge record is created.
C10_IdenticalNeverCandidates ==
    IdenticalTemplates =>
        /\ calls = <<>>
        /\ DOMAIN merges = {}

\* C10 amended: with identical templates every pair has offset 0 and
\* satisfies the candidate criteria exactly when the rectified peak value is
\* positive; then test_merge is invoked for every pair and a record (offset
\* 0) is created for each success, so events may be relabeled but are never
\* time-shifted.  Only when the rectified peak is not positive is there no
\* candidate, no invocation, no record and no relabeled event.
C10_IdenticalAreCandidatesIffPositivePeak ==
    IdenticalTemplates =>
        LET peak == PeakValue(1, PeakChannel(1))
        IN  /\ \A pr \in AllPairs :
                  /\ Offset1(pr[1], pr[2]) = 0
                  /\ Offset2(pr[1], pr[2]) = 0
                  /\ Candidate(pr[1], pr[2]) <=> peak > 0
            /\ \A u \in DOMAIN merges : merges[u].offset = 0
            /\ \A k \in 1..Len(new_events) :
                  new_events[k].time = in_events[new_events[k].id].time
            /\ (ScanOver /\ peak > 0) =>
                  {<<calls[k].i1, calls[k].i2>> : k \in 1..Len(calls)} = AllPairs
            /\ peak <= 0 =>
                  /\ calls = <<>>
                  /\ DOMAIN merges = {}
                  /\ \A k \in 1..Len(new_events) :
                        new_events[k].label \in
                            {0, in_events[new_events[k].id].label}

\* The function returned on identical templates with a merge record applied
\* to an event.
C10_Witness ==
    /\ IdenticalTemplates
    /\ mpc = "done"
    /\ DOMAIN merges # {}
    /\ \E k \in 1..Len(new_events) :
          new_events[k].label # in_events[new_events[k].id].label

(***************************************************************************)
(* sorting_scheme2, phase 2: the chunk loop (sorting_scheme2.py 110-167)   *)
(*                                                                         *)
(* The recording holds spikes; a spike is [t, label, offset]: t is the     *)
(* sample detect_spikes reports it at, label and offset are what the       *)
(* fitted classifier answers for its snippet (the same in every chunk that *)
(* sees the spike with its full snippet).  An event of a chunk is          *)
(* [id, time, label] with id the spike it comes from.                      *)
(***************************************************************************)
snippet_T1 == 1
snippet_T2 == 1
MaxSpikes == 2
MaxTimeRadius == 2

\* padding=1000 at the call of get_time_chunks, scaled down with the snippet
\* size: the padding exceeds snippet_T1 plus the largest classifier offset.
ChunkPadding == 3

\* The offsets the classifier was trained with lie in
\* [-snippet_T1, snippet_T2) (lines 91-102); these are the ones it answers.
ClassifierOffsets == {-1, 0}

ClassifierLabels == {1, 2}

\* chunk_size = ceil(100e6 / num_channels), scaled down; it is not smaller
\* than the padding.
RecChunkSizes == ChunkPadding..(ChunkPadding + 1)

\* Recordings of two or three chunks.
RecSamples(cs) == (cs + 1)..(2 * cs + 1)

\* The spikes detect_spikes can report on a recording of n samples (margins
\* snippet_T1 and snippet_T2 at the two ends of the traces).
SpikesOf(n) ==
    [t : snippet_T1..(n - 1 - snippet_T2), label : ClassifierLabels,
     offset : ClassifierOffsets]

\* The sets of at most MaxSpikes spikes.
SpikeSets(n) ==
    {{}} \cup {{f[k] : k \in 1..MaxSpikes} : f \in [1..MaxSpikes -> SpikesOf(n)]}

\* detect_spikes on traces[lo, hi) with margin_left = snippet_T1 and
\* margin_right = snippet_T2: the spikes at least the margins inside the
\* traces, at their sample within the traces.
detect_spikes(lo, hi) ==
    {s \in spikes : snippet_T1 <= s.t - lo /\ s.t - lo < (hi - lo) - snippet_T2}

\* lines 118-146: the chunk's events with times_chunk - offsets_chunk, in the
\* frame of the padded chunk, as a set
ClassifiedEvents(chunk) ==
    LET lo == chunk.start - chunk.padding_left
        hi == chunk.end + chunk.padding_right
    IN  {[id |-> s, time |-> (s.t - lo) - s.offset, label |-> s.label] :
            s \in detect_spikes(lo, hi)}

\* lines 149-151: every order np.argsort may give to the chunk's events
SortedOrders(evset) ==
    {sq \in [1..Cardinality(evset) -> evset] :
        /\ \A a, b \in 1..Cardinality(evset) : a # b => sq[a] # sq[b]
        /\ SortedEvents(sq)}

\* One unit of remove_duplicate_events, for each label in ascending order.
RECURSIVE DedupLabels(_, _, _)
DedupLabels(evs, labelset, tl) ==
    IF labelset = {} THEN evs
    ELSE LET l == SetMin(labelset)
         IN  DedupLabels(DedupUnit(evs, l, tl), labelset \ {l}, tl)

\* remove_duplicate_events(times, labels, tol): find_duplicate_times on each
\* label's events, the duplicates dropped, the order kept.
remove_duplicate_events(evs, tl) ==
    NonzeroEvents(DedupLabels(evs, {evs[k].label : k \in 1..Len(evs)}, tl))

\* Faulty variant of InCore: the right end of the core region is included.
InCore_RightClosed(chunk, t) ==
    chunk.padding_left <= t /\ t <= chunk.total_size - chunk.padding_right

\* line 157: padding_left <= t < total_size - padding_right
InCore(chunk, t) ==
    chunk.padding_left <= t /\ t < chunk.total_size - chunk.padding_right

\* lines 157-159
RECURSIVE TrimMargins(_, _)
TrimMargins(evs, chunk) ==
    IF evs = <<>> THEN <<>>
    ELSE (IF InCore(chunk, Head(evs).time) THEN <<Head(evs)>> ELSE <<>>)
             \o TrimMargins(Tail(evs), chunk)

\* Faulty variant of GlobalTime: the left padding is not subtracted.
GlobalTime_NoPadding(chunk, t) == t + chunk.start

\* line 162: times_chunk + chunk.start - chunk.padding_left
GlobalTime(chunk, t) == t + chunk.start - chunk.padding_left

Translate(evs, chunk) ==
    [k \in 1..Len(evs) |-> [evs[k] EXCEPT !.time = GlobalTime(chunk, @)]]

\* np.concatenate
RECURSIVE Concat(_)
Concat(lists) ==
    IF lists = <<>> THEN <<>> ELSE Head(lists) \o Concat(Tail(lists))

Scheme2Init ==
    /\ rec_chunk_size \in RecChunkSizes
    /\ rec_samples \in RecSamples(rec_chunk_size)
    /\ spikes \in SpikeSets(rec_samples)
    /\ time_radius \in 0..MaxTimeRadius
    /\ plan = get_time_chunks(rec_samples, rec_chunk_size, ChunkPadding)
    /\ ci = 1
    /\ times_list = <<>>
    /\ times_concat = <<>>
    /\ spc = "chunks"
    /\ ChunksIdle /\ DupIdle /\ MergeIdle

\* lines 115-163: one iteration of the chunk loop
ProcessChunk ==
    /\ spc = "chunks"
    /\ ci <= Len(plan)
    /\ \E sorted \in SortedOrders(ClassifiedEvents(plan[ci])) :
          LET deduped == remove_duplicate_events(sorted, time_radius)
              valid == TrimMargins(deduped, plan[ci])
          IN  times_list' = Append(times_list, Translate(valid, plan[ci]))
    /\ ci' = ci + 1
    /\ UNCHANGED <<spikes, rec_samples, rec_chunk_size, time_radius, plan,
                   times_concat, spc>>
    /\ UNCHANGED <<chunkVars, dupVars, mergeVars>>

\* lines 166-167
ConcatResults ==
    /\ spc = "chunks"
    /\ ci > Len(plan)
    /\ times_concat' = Concat(times_list)
    /\ spc' = "done"
    /\ UNCHANGED <<spikes, rec_samples, rec_chunk_size, time_radius, plan, ci,
                   times_list>>
    /\ UNCHANGED <<chunkVars, dupVars, mergeVars>>

Scheme2Next == ProcessChunk \/ ConcatResults

SpecScheme2 == Scheme2Init /\ [][Scheme2Next]_vars

\* The corrected time of a spike on the global sample axis.
CorrectedTime(s) == s.t - s.offset

\* The spikes whose corrected time is the start of the chunk after plan[k].
BoundarySpikes(k) == {s \in spikes : CorrectedTime(s) = plan[k + 1].start}

\* How many events of the final output come from the spike s.
Occurrences(s) ==
    Cardinality({k \in 1..Len(times_concat) : times_concat[k].id = s})

\* C5 as stated: a spike exactly at the boundary between two chunks' core
\* regions appears exactly once in the final output.
C5_BoundarySpikeExactlyOnce ==
    spc = "done" =>
        \A k \in 1..(Len(plan) - 1) :
            \A s \in BoundarySpikes(k) : Occurrences(s) = 1

\* Another spike of the same label whose corrected time is at most
\* time_radius before (or at) the corrected time of s.
HasCloseEarlierSpike(s) ==
    \E o \in spikes \ {s} :
        /\ o.label = s.label
        /\ CorrectedTime(o) <= CorrectedTime(s)
        /\ CorrectedTime(s) <= CorrectedTime(o) + time_radius

\* C5 amended: a spike exactly at the boundary between two chunks' core
\* regions is never kept by both chunks (the earlier chunk trims it), so it
\* appears at most once in the final output, at its corrected time with its
\* label; it appears exactly once, contributed by the later chunk, when no
\* other spike of its label lies within time_radius at or before it.  (When
\* there is one, the per-chunk duplicate removal may drop the boundary spike
\* in the later chunk.)
C5_BoundarySpikeAtMostOnce ==
    spc = "done" =>
        \A k \in 1..(Len(plan) - 1) :
            \A s \in BoundarySpikes(k) :
                /\ Occurrences(s) <= 1
                /\ \A j \in 1..Len(times_list[k]) : times_list[k][j].id # s
                /\ \A j \in 1..Len(times_concat) :
                      times_concat[j].id = s =>
                          /\ times_concat[j].time = CorrectedTime(s)
                          /\ times_concat[j].label = s.label
                /\ ~HasCloseEarlierSpike(s) =>
                      /\ Occurrences(s) = 1
                      /\ \E j \in 1..Len(times_list[k + 1]) :
                            times_list[k + 1][j].id = s

\* A two-chunk recording was sorted; a spike at the boundary, detected in the
\* padding of the first chunk and in the second chunk, is in the output once,
\* next to another spike of its label.
C5_Witness ==
    /\ spc = "done"
    /\ Len(plan) = 2
    /\ \E s \in BoundarySpikes(1) :
          /\ Occurrences(s) = 1
          /\ s \in detect_spikes(plan[1].start - plan[1].padding_left,
                                 plan[1].end + plan[1].padding_right)
          /\ s \in detect_spikes(plan[2].start - plan[2].padding_left,
                                 plan[2].end + plan[2].padding_right)
          /\ \E o \in spikes \ {s} : o.label = s.label
    /\ Len(times_concat) = 2

\* C9: at every point of the chunk loop, each processed chunk's events are in
\* non-decreasing time order with global times inside that chunk's core
\* region [start, end), so the concatenation of the accumulated results is in
\* non-decreasing global time order without a final sort; the final output
\* is that concatenation.
C9_ConcatenationSorted ==
    /\ \A k \in 1..Len(times_list) :
          /\ SortedEvents(times_list[k])
          /\ \A j \in 1..Len(times_list[k]) :
                /\ plan[k].start <= times_list[k][j].time
                /\ times_list[k][j].time < plan[k].end
    /\ SortedEvents(Concat(times_list))
    /\ spc = "done" =>
          /\ times_concat = Concat(times_list)
          /\ SortedEvents(times_concat)

\* Three chunks were processed, two of them contributed an event, and the
\* classifier offset moved a spike detected in one core region into the next.
C9_Witness ==
    /\ spc = "done"
    /\ Len(plan) = 3
    /\ Len(times_concat) = 2
    /\ \E j, k \in 1..Len(times_list) :
          j # k /\ times_list[j] # <<>> /\ times_list[k] # <<>>
    /\ \E s \in spikes : s.t < plan[2].start /\ CorrectedTime(s) = plan[2].start

====
